---- MODULE Spec2Model ----
(***************************************************************************)
(* Morse signal codec and timing state machine of namenamedoc:             *)
(* MorseConverter, MorseTransmitter, GPIOController.monitor_receive_signal,*)
(* SignalReceiver, MorseReceiver and MorseCommunicationManager.            *)
(*                                                                         *)
(* Time is discrete.  One tick is the polling interval of the input        *)
(* monitor (time.sleep(0.01)); every duration of MORSE_TIMING is a whole   *)
(* number of ticks.  A thread in time.sleep(d) continues no earlier than d *)
(* ticks after it went to sleep.  The transmission worker and the monitor  *)
(* continue exactly then; a boundary-timer thread may be up to `late`      *)
(* ticks overdue (late = 0 under Spec, late = MaxLate under SpecLate).     *)
(* Steps of different threads at the same instant interleave freely.       *)
(***************************************************************************)
EXTENDS Integers, Sequences, FiniteSets, TLC

\* ------------------------------------------------------------------ bounds
MaxTime == 48
MaxTimeTx == 20
MaxTimeLate == 20
MaxCalls == 3
MaxPulses == 3
MaxLate == 3
MaxTimeClear == 24
MaxTimeRead == 26
MaxTimeMgr == 10
MaxSendsMgr == 1
MaxSendsStop == 2
MaxClears == 1
MaxLen == 3
MaxMorseLen == 4
MaxDur == 7
MaxTimeSwitch == 24
MaxPresses == 2
MaxTimeLateWord == 34
MaxTimeGap == 30
MaxTimeMon == 16
MaxTimeStopRx == 14
MaxTimeFail == 12
MaxTimeBounce == 12
MaxBounces == 1
MaxSendsFail == 2

\* --------------------------------------------------------------- constants
\* time.sleep(0.01) of the monitor loop: one tick
PollInterval == 1

\* SWITCH_SETTINGS['debounce_time'], the configured debounce interval, in
\* ticks on the scale of MORSE_TIMING (shorter than a pulse, longer than a
\* poll)
debounce_time == 2

\* simulate_switch_press(0.2) and simulate_switch_press(0.5), with the dot
\* of MORSE_TIMING at 0.2 s
ShortPress == 2
LongPress == 5

\* config.settings.MORSE_TIMING (not in the repository's sources): the
\* durations in ticks, with dash > dot and
\* inter_word_gap > inter_char_gap > intra_char_gap
MORSE_TIMING ==
    [dot |-> 2, dash |-> 6, intra_char_gap |-> 2,
     inter_char_gap |-> 6, inter_word_gap |-> 14]

\* config.settings.MORSE_CODE_DICT (not in the repository's sources): the
\* part of the code table the model uses; a code is a sequence of symbols
MORSE_CODE_DICT ==
    ("E" :> <<".">>) @@ ("T" :> <<"-">>) @@
    ("A" :> <<".", "-">>) @@ ("N" :> <<"-", ".">>) @@
    ("I" :> <<".", ".">>) @@ ("M" :> <<"-", "-">>) @@
    ("S" :> <<".", ".", ".">>) @@ ("O" :> <<"-", "-", "-">>) @@
    ("R" :> <<".", "-", ".">>) @@ ("W" :> <<".", "-", "-">>) @@
    ("D" :> <<"-", ".", ".">>) @@ ("H" :> <<".", ".", ".", ".">>) @@
    ("L" :> <<".", "-", ".", ".">>) @@
    (" " :> <<"/">>)

\* config.settings.REVERSE_MORSE_DICT: the code table reversed
REVERSE_MORSE_DICT ==
    [code \in {MORSE_CODE_DICT[c] : c \in DOMAIN MORSE_CODE_DICT} |->
        CHOOSE c \in DOMAIN MORSE_CODE_DICT : MORSE_CODE_DICT[c] = code]

\* str.upper() on the characters the model uses
Upper(c) ==
    CASE c = "e" -> "E" [] c = "t" -> "T" [] c = "a" -> "A"
      [] c = "s" -> "S" [] c = "o" -> "O" [] OTHER -> c

\* ---------------------------------------------------------------- strings
\* A Python str is a sequence of one-character strings.

\* sep.join(parts)
RECURSIVE Join(_, _)
Join(parts, sep) ==
    IF parts = <<>> THEN <<>>
    ELSE IF Len(parts) = 1 THEN parts[1]
    ELSE parts[1] \o <<sep>> \o Join(Tail(parts), sep)

\* s.split(sep): every separator cuts, so '' gives [''] and 'a  b' gives
\* ['a', '', 'b']
RECURSIVE SplitAcc(_, _, _)
SplitAcc(s, sep, cur) ==
    IF s = <<>> THEN <<cur>>
    ELSE IF Head(s) = sep THEN <<cur>> \o SplitAcc(Tail(s), sep, <<>>)
    ELSE SplitAcc(Tail(s), sep, Append(cur, Head(s)))

Split(s, sep) == SplitAcc(s, sep, <<>>)

\* ----------------------------------------------------------- MorseConverter
\* text_to_morse that joins the codes with nothing between them
text_to_morse_Unspaced(text) ==
    IF text = <<>> THEN <<>>
    ELSE LET codes == [k \in 1..Len(text) |->
                          IF Upper(text[k]) \in DOMAIN MORSE_CODE_DICT
                          THEN MORSE_CODE_DICT[Upper(text[k])]
                          ELSE <<"?">>]
             RECURSIVE Concat(_)
             Concat(parts) ==
                 IF parts = <<>> THEN <<>>
                 ELSE parts[1] \o Concat(Tail(parts))
         IN  Concat(codes)

\* text_to_morse without text.upper()
text_to_morse_NoUpper(text) ==
    IF text = <<>> THEN <<>>
    ELSE Join([k \in 1..Len(text) |->
                  IF text[k] \in DOMAIN MORSE_CODE_DICT
                  THEN MORSE_CODE_DICT[text[k]]
                  ELSE <<"?">>], " ")

\* MorseConverter.text_to_morse
text_to_morse(text) ==
    IF text = <<>> THEN <<>>
    ELSE Join([k \in 1..Len(text) |->
                  IF Upper(text[k]) \in DOMAIN MORSE_CODE_DICT
                  THEN MORSE_CODE_DICT[Upper(text[k])]
                  ELSE <<"?">>], " ")

\* morse_to_text that leaves out the codes it does not know
morse_to_text_SkipUnknown(morse) ==
    IF morse = <<>> THEN <<>>
    ELSE LET morse_chars == Split(morse, " ")
             RECURSIVE Decode(_)
             Decode(codes) ==
                 IF codes = <<>> THEN <<>>
                 ELSE (IF codes[1] \in DOMAIN REVERSE_MORSE_DICT
                       THEN <<REVERSE_MORSE_DICT[codes[1]]>>
                       ELSE IF codes[1] = <<"/">> THEN <<" ">>
                       ELSE <<>>) \o Decode(Tail(codes))
         IN  Decode(morse_chars)

\* MorseConverter.morse_to_text
morse_to_text(morse) ==
    IF morse = <<>> THEN <<>>
    ELSE LET morse_chars == Split(morse, " ")
         IN  [k \in 1..Len(morse_chars) |->
                 IF morse_chars[k] \in DOMAIN REVERSE_MORSE_DICT
                 THEN REVERSE_MORSE_DICT[morse_chars[k]]
                 ELSE IF morse_chars[k] = <<"/">> THEN " "
                 ELSE "?"]

\* the texts the callers send
Texts == {<<"s">>, <<"E", "T">>}

\* texts of one and of two words
GapTexts ==
    {<<"E", "T">>, <<"E", " ", "T">>, <<"T", " ", "E">>, <<"e", "t", " ", "e">>,
     <<"E", " ">>, <<"s", "E">>}

\* all sequences over a set of characters up to a length
RECURSIVE SeqsUpTo(_, _)
SeqsUpTo(chars, n) ==
    IF n = 0 THEN {<<>>}
    ELSE LET shorter == SeqsUpTo(chars, n - 1)
         IN  shorter \cup {Append(t, c) : t \in shorter, c \in chars}

\* the characters of the texts given to text_to_morse: upper and lower
\* case, the space, and '#', which has no entry in the code table
ConvAlphabet == {"e", "E", "T", "s", " ", "#"}

SOS == <<"S", "O", "S">>

HELLO_WORLD == <<"H", "E", "L", "L", "O", " ", "W", "O", "R", "L", "D">>

\* the texts given to text_to_morse
ConvTexts ==
    SeqsUpTo(ConvAlphabet, MaxLen) \cup {SOS, HELLO_WORLD}
        \cup {<<c>> : c \in DOMAIN MORSE_CODE_DICT}

\* the Morse strings given to morse_to_text
ConvMorse == SeqsUpTo({".", "-", " ", "/"}, MaxMorseLen)

\* the timing profiles of the data model: positive durations, dash > dot
Profiles ==
    {timing \in [dot : 1..MaxDur, dash : 1..MaxDur] : timing.dash > timing.dot}

\* ------------------------------------------------------------------- state
VARIABLES
    now,                \* time.time(), in ticks
    late,               \* how many ticks a boundary-timer thread may be overdue
    \* MorseTransmitter
    is_transmitting,    \* self.is_transmitting
    stop_transmission,  \* self.stop_transmission (threading.Event)
    transmit_thread,    \* self.transmit_thread: a worker's number, 0 for None
    worker,             \* the threads running _transmit_morse_sequence
    tx_pin,             \* level of the transmit pin (TRUE = HIGH)
    caller,             \* the thread calling transmit_text / stop_transmit
    last_op,            \* the call that the caller made last, and its result
    \* the receive pin
    wiring,             \* what drives the receive pin: "env" or "wire"
    env_pin,            \* level an external sender puts on the receive pin
    env,                \* the external sender: pulses begun, time of last edge
    \* GPIOController.monitor_receive_signal
    monitor,            \* the monitoring thread and its locals
    \* SignalReceiver
    received_signals,   \* self.received_signals
    current_char_signals, \* self.current_char_signals (PendingCharacter)
    last_signal_time,   \* self.last_signal_time, -1 for None
    ctimer,             \* the threads running check_char_complete
    char_log,           \* history: the completed-character events
    \* MorseReceiver
    received_text,      \* self.received_text
    current_word,       \* self.current_word (PendingWord)
    wtimer,             \* the threads running check_word_complete
    word_log,           \* history: the text-complete notifications
    \* MorseCommunicationManager
    communication_active, \* self.communication_active
    client,             \* the thread calling the manager: its position in a
                        \* call, the call it made last and what it returned
    \* GPIOController
    switch,             \* self.switch_callbacks and the simulated presses
    \* MorseConverter
    conv                \* a call of the converter: its argument and results

txvars == <<is_transmitting, stop_transmission, transmit_thread, worker,
            tx_pin, caller, last_op>>

rxvars == <<wiring, env_pin, env, monitor, received_signals,
            current_char_signals, last_signal_time, ctimer, char_log,
            received_text, current_word, wtimer, word_log,
            communication_active>>

vars == <<now, late, switch, conv, client, txvars, rxvars>>

Workers == 1..MaxCalls

\* a worker that was never created
NoWorker ==
    [pc |-> "none", text |-> <<>>, morse_chars |-> <<>>, i |-> 0, wake |-> 0,
     high_since |-> 0, pulses |-> <<>>, acted |-> 0, cancelled |-> FALSE,
     callbacks |-> 0, stop_mark |-> -1, failed |-> FALSE]

\* a worker thread that exists and has not finished
Live(w) == worker[w].pc \notin {"none", "done"}

\* the number of worker threads created so far
NumWorkers == Cardinality({w \in Workers : worker[w].pc # "none"})

TxInit ==
    /\ is_transmitting = FALSE
    /\ stop_transmission = FALSE
    /\ transmit_thread = 0
    /\ worker = [w \in Workers |-> NoWorker]
    /\ tx_pin = FALSE
    /\ caller = [pc |-> "idle", joining |-> 0, calls |-> 0]
    /\ last_op = "none"

\* what the client remembers of SignalReceiver and MorseReceiver when it
\* calls clear_messages: the timers started and the events logged so far
NoMark == [ctimers |-> 0, wtimers |-> 0, chars |-> 0, words |-> 0]

ClientInit ==
    client = [pc |-> "idle", op |-> "none", read |-> <<>>, clears |-> 0,
              before |-> NoMark, after |-> NoMark]

\* GPIOController.__init__: self.switch_callbacks = []; no press was made
SwitchInit == switch = [callbacks |-> <<>>, presses |-> <<>>]

\* no call of the converter or of the classification is in progress
NoConv ==
    [pc |-> "none", text |-> <<>>, morse |-> <<>>, back |-> <<>>,
     timing |-> [dot |-> MORSE_TIMING.dot, dash |-> MORSE_TIMING.dash],
     duration |-> 0, token |-> ""]

ConvInit == conv = NoConv

\* --------------------------------------------------------- MorseTransmitter
\* transmit_text that forgets the thread in flight when it rejects a call
TransmitText_BusyForgets(text) ==
    /\ caller.pc = "idle"
    /\ IF is_transmitting
       THEN /\ last_op' = "send_busy"
            /\ transmit_thread' = 0
            /\ UNCHANGED <<worker, caller>>
       ELSE /\ caller.calls < MaxCalls
            /\ caller' = [caller EXCEPT !.calls = @ + 1]
            /\ worker' = [worker EXCEPT ![NumWorkers + 1] =
                   [NoWorker EXCEPT !.pc = "start", !.text = text,
                       !.morse_chars = Split(text_to_morse(text), " ")]]
            /\ transmit_thread' = NumWorkers + 1
            /\ last_op' = "send_ok"
    /\ UNCHANGED <<is_transmitting, stop_transmission, tx_pin>>
    /\ UNCHANGED <<now, late, switch, conv, client, rxvars>>

\* MorseTransmitter.transmit_text, called with a completion callback
TransmitText(text) ==
    /\ caller.pc = "idle"
    /\ IF is_transmitting
       THEN /\ last_op' = "send_busy"
            /\ UNCHANGED <<transmit_thread, worker, caller>>
       ELSE /\ caller.calls < MaxCalls
            /\ caller' = [caller EXCEPT !.calls = @ + 1]
            /\ worker' = [worker EXCEPT ![NumWorkers + 1] =
                   [NoWorker EXCEPT !.pc = "start", !.text = text,
                       !.morse_chars = Split(text_to_morse(text), " ")]]
            /\ transmit_thread' = NumWorkers + 1
            /\ last_op' = "send_ok"
    /\ UNCHANGED <<is_transmitting, stop_transmission, tx_pin>>
    /\ UNCHANGED <<now, late, switch, conv, client, rxvars>>

\* the unit a worker has reached when a stop is requested: the unit it is
\* in, or the last one it left when it is between two units
UnitReached(w) ==
    IF worker[w].pc \in {"high", "intra", "inter", "word"} THEN worker[w].i
    ELSE IF worker[w].pc = "loop" THEN worker[w].i - 1
    ELSE IF worker[w].pc = "start" THEN 0
    ELSE Len(worker[w].morse_chars)

\* MorseTransmitter.stop_transmit up to its join
StopTransmit ==
    /\ caller.pc = "idle"
    /\ caller.calls < MaxCalls
    /\ stop_transmission' = TRUE
    /\ worker' = [w \in Workers |->
           IF Live(w) /\ worker[w].stop_mark < 0
           THEN [worker[w] EXCEPT !.stop_mark = UnitReached(w)]
           ELSE worker[w]]
    /\ IF transmit_thread # 0
       THEN /\ caller' = [caller EXCEPT !.pc = "join",
                              !.joining = transmit_thread,
                              !.calls = @ + 1]
            /\ last_op' = "stopping"
       ELSE /\ caller' = [caller EXCEPT !.calls = @ + 1]
            /\ last_op' = "stop"
    /\ UNCHANGED <<is_transmitting, transmit_thread, tx_pin>>
    /\ UNCHANGED <<now, late, switch, conv, client, rxvars>>

\* transmit_thread.join() returns, and with it stop_transmit
StopTransmitReturn ==
    /\ caller.pc = "join"
    /\ client.pc # "stop_join"
    /\ worker[caller.joining].pc = "done"
    /\ caller' = [caller EXCEPT !.pc = "idle", !.joining = 0]
    /\ last_op' = "stop"
    /\ UNCHANGED <<is_transmitting, stop_transmission, transmit_thread,
                   worker, tx_pin>>
    /\ UNCHANGED <<now, late, switch, conv, client, rxvars>>

\* _transmit_morse_sequence, its first two statements
WorkerStart(w) ==
    /\ worker[w].pc = "start"
    /\ is_transmitting' = TRUE
    /\ stop_transmission' = FALSE
    /\ worker' = [worker EXCEPT ![w].pc = "loop", ![w].i = 1]
    /\ UNCHANGED <<transmit_thread, tx_pin, caller, last_op>>
    /\ UNCHANGED <<now, late, switch, conv, client, rxvars>>

\* a wait of inter_char_gap after every unit but the last one
AfterUnit_AlwaysGap(wk) ==
    IF wk.i < Len(wk.morse_chars)
    THEN [wk EXCEPT !.pc = "inter",
                    !.wake = now + MORSE_TIMING.inter_char_gap,
                    !.acted = wk.i]
    ELSE [wk EXCEPT !.pc = "loop", !.i = @ + 1]

\* the wait that follows a unit: inter_char_gap unless the unit is the last
\* one or the next one is a word separator
AfterUnit(wk) ==
    IF wk.i < Len(wk.morse_chars) /\ wk.morse_chars[wk.i + 1] # <<"/">>
    THEN [wk EXCEPT !.pc = "inter",
                    !.wake = now + MORSE_TIMING.inter_char_gap,
                    !.acted = wk.i]
    ELSE [wk EXCEPT !.pc = "loop", !.i = @ + 1]

\* the unit a worker starts at the top of its loop
BeginUnit(wk) ==
    LET morse_char == wk.morse_chars[wk.i]
    IN  IF morse_char = <<"/">>
        THEN [wk EXCEPT !.pc = "word",
                        !.wake = now + MORSE_TIMING.inter_word_gap,
                        !.acted = wk.i]
        ELSE IF morse_char = <<".">>
        THEN [wk EXCEPT !.pc = "high", !.wake = now + MORSE_TIMING.dot,
                        !.high_since = now, !.acted = wk.i]
        ELSE IF morse_char = <<"-">>
        THEN [wk EXCEPT !.pc = "high", !.wake = now + MORSE_TIMING.dash,
                        !.high_since = now, !.acted = wk.i]
        ELSE AfterUnit(wk)

\* one pass of the for loop of _transmit_morse_sequence up to its first
\* sleep: the stop check, then the unit (set_transmit_high of transmit_dot /
\* transmit_dash, or the word gap)
WorkerLoop(w) ==
    /\ worker[w].pc = "loop"
    /\ IF worker[w].i > Len(worker[w].morse_chars)
       THEN worker' = [worker EXCEPT ![w].pc = "finally"]
       ELSE IF stop_transmission
       THEN worker' = [worker EXCEPT ![w].pc = "finally",
                                     ![w].cancelled = TRUE]
       ELSE worker' = [worker EXCEPT ![w] = BeginUnit(worker[w])]
    /\ tx_pin' = IF worker'[w].pc = "high" THEN TRUE ELSE tx_pin
    /\ UNCHANGED <<is_transmitting, stop_transmission, transmit_thread,
                   caller, last_op>>
    /\ UNCHANGED <<now, late, switch, conv, client, rxvars>>

\* transmit_dot / transmit_dash after the pulse: set_transmit_low, then the
\* sleep of intra_char_gap
WorkerLow(w) ==
    /\ worker[w].pc = "high"
    /\ now >= worker[w].wake
    /\ tx_pin' = FALSE
    /\ worker' = [worker EXCEPT ![w].pc = "intra",
           ![w].wake = now + MORSE_TIMING.intra_char_gap,
           ![w].pulses = Append(@, now - worker[w].high_since)]
    /\ UNCHANGED <<is_transmitting, stop_transmission, transmit_thread,
                   caller, last_op>>
    /\ UNCHANGED <<now, late, switch, conv, client, rxvars>>

\* transmit_dot / transmit_dash return; the wait between characters
WorkerIntraDone(w) ==
    /\ worker[w].pc = "intra"
    /\ now >= worker[w].wake
    /\ worker' = [worker EXCEPT ![w] = AfterUnit(worker[w])]
    /\ UNCHANGED <<is_transmitting, stop_transmission, transmit_thread,
                   tx_pin, caller, last_op>>
    /\ UNCHANGED <<now, late, switch, conv, client, rxvars>>

\* the sleep of inter_char_gap or inter_word_gap is over: next unit
WorkerGapDone(w) ==
    /\ worker[w].pc \in {"inter", "word"}
    /\ now >= worker[w].wake
    /\ worker' = [worker EXCEPT ![w].pc = "loop", ![w].i = @ + 1]
    /\ UNCHANGED <<is_transmitting, stop_transmission, transmit_thread,
                   tx_pin, caller, last_op>>
    /\ UNCHANGED <<now, late, switch, conv, client, rxvars>>

\* the finally block: is_transmitting = False
WorkerFinally(w) ==
    /\ worker[w].pc = "finally"
    /\ is_transmitting' = FALSE
    /\ worker' = [worker EXCEPT ![w].pc = "callback"]
    /\ UNCHANGED <<stop_transmission, transmit_thread, tx_pin, caller,
                   last_op>>
    /\ UNCHANGED <<now, late, switch, conv, client, rxvars>>

\* the finally block: callback(), and the thread ends
WorkerCallback(w) ==
    /\ worker[w].pc = "callback"
    /\ worker' = [worker EXCEPT ![w].pc = "done", ![w].callbacks = @ + 1]
    /\ UNCHANGED <<is_transmitting, stop_transmission, transmit_thread,
                   tx_pin, caller, last_op>>
    /\ UNCHANGED <<now, late, switch, conv, client, rxvars>>

\* a driver failure that ends the thread without the finally block
WorkerHighFails_Dies(w) ==
    /\ worker[w].pc = "loop"
    /\ worker[w].i <= Len(worker[w].morse_chars)
    /\ ~stop_transmission
    /\ worker[w].morse_chars[worker[w].i] \in {<<".">>, <<"-">>}
    /\ worker' = [worker EXCEPT ![w].pc = "done", ![w].failed = TRUE]
    /\ UNCHANGED <<is_transmitting, stop_transmission, transmit_thread,
                   tx_pin, caller, last_op>>
    /\ UNCHANGED <<now, late, switch, conv, client, rxvars>>

\* GPIO.output raises in set_transmit_high (called by transmit_dot /
\* transmit_dash): `except Exception` catches it and the finally block runs
WorkerHighFails(w) ==
    /\ worker[w].pc = "loop"
    /\ worker[w].i <= Len(worker[w].morse_chars)
    /\ ~stop_transmission
    /\ worker[w].morse_chars[worker[w].i] \in {<<".">>, <<"-">>}
    /\ worker' = [worker EXCEPT ![w].pc = "finally", ![w].failed = TRUE]
    /\ UNCHANGED <<is_transmitting, stop_transmission, transmit_thread,
                   tx_pin, caller, last_op>>
    /\ UNCHANGED <<now, late, switch, conv, client, rxvars>>

\* GPIO.output raises in set_transmit_low after the pulse's sleep: the pin
\* stays as it is, `except Exception` catches it and the finally block runs
WorkerLowFails(w) ==
    /\ worker[w].pc = "high"
    /\ now >= worker[w].wake
    /\ worker' = [worker EXCEPT ![w].pc = "finally", ![w].failed = TRUE]
    /\ UNCHANGED <<is_transmitting, stop_transmission, transmit_thread,
                   tx_pin, caller, last_op>>
    /\ UNCHANGED <<now, late, switch, conv, client, rxvars>>

\* a worker thread that can take a step now
WorkerReady(w) ==
    \/ worker[w].pc \in {"start", "loop", "finally", "callback"}
    \/ worker[w].pc \in {"high", "intra", "inter", "word"}
         /\ now >= worker[w].wake

\* the caller's join can return now
JoinReady == caller.pc = "join" /\ worker[caller.joining].pc = "done"

\* ------------------------------------------------------------ receive pin
\* pulse lengths and silences of the external sender, in ticks
EnvDurations == {MORSE_TIMING.dot, MORSE_TIMING.dash}

EnvGaps ==
    {MORSE_TIMING.intra_char_gap, MORSE_TIMING.inter_char_gap + 1,
     MORSE_TIMING.inter_char_gap + MORSE_TIMING.inter_word_gap + 2}

Timers == 1..MaxPulses

NoTimer == [pc |-> "none", wake |-> 0]

RxInit ==
    /\ env_pin = FALSE
    /\ env = [pulses |-> 0, last_edge |-> 0 - MORSE_TIMING.intra_char_gap,
              group |-> <<>>, dur |-> <<>>, bounce |-> -1, bounces |-> 0]
    /\ monitor = [pc |-> "off", wake |-> 0, last_state |-> FALSE,
                  signal_start |-> -1, stop_event |-> FALSE]
    /\ received_signals = <<>>
    /\ current_char_signals = <<>>
    /\ last_signal_time = -1
    /\ ctimer = [k \in Timers |-> NoTimer]
    /\ char_log = <<>>
    /\ received_text = <<>>
    /\ current_word = <<>>
    /\ wtimer = [k \in Timers |-> NoTimer]
    /\ word_log = <<>>
    /\ communication_active = FALSE

\* the group of the pulse that starts now: a silence longer than
\* inter_char_gap starts a new group
NextGroup ==
    IF env.pulses = 0 THEN 1
    ELSE IF now - env.last_edge > MORSE_TIMING.inter_char_gap
    THEN env.group[env.pulses] + 1
    ELSE env.group[env.pulses]

\* the external sender raises the line
EnvRise ==
    /\ wiring = "env"
    /\ ~env_pin
    /\ env.bounce < 0
    /\ env.pulses < MaxPulses
    /\ now - env.last_edge \in EnvGaps
    /\ env_pin' = TRUE
    /\ env' = [env EXCEPT !.pulses = @ + 1, !.last_edge = now,
                          !.group = Append(@, NextGroup)]
    /\ UNCHANGED <<wiring, monitor, received_signals, current_char_signals,
                   last_signal_time, ctimer, char_log, received_text,
                   current_word, wtimer, word_log, communication_active>>
    /\ UNCHANGED <<now, late, switch, conv, client, txvars>>

\* the external sender lowers the line
EnvFall ==
    /\ wiring = "env"
    /\ env_pin
    /\ env.bounce < 0
    /\ now - env.last_edge \in EnvDurations
    /\ env_pin' = FALSE
    /\ env' = [env EXCEPT !.last_edge = now,
                          !.dur = Append(@, now - env.last_edge)]
    /\ UNCHANGED <<wiring, monitor, received_signals, current_char_signals,
                   last_signal_time, ctimer, char_log, received_text,
                   current_word, wtimer, word_log, communication_active>>
    /\ UNCHANGED <<now, late, switch, conv, client, txvars>>

\* a contact bounce or a glitch: the line leaves its level
EnvBounceStart ==
    /\ wiring = "env"
    /\ env.bounce < 0
    /\ env.bounces < MaxBounces
    /\ now > env.last_edge
    /\ env_pin => now - env.last_edge < MORSE_TIMING.dot
    /\ env_pin' = ~env_pin
    /\ env' = [env EXCEPT !.bounce = now]
    /\ UNCHANGED <<wiring, monitor, received_signals, current_char_signals,
                   last_signal_time, ctimer, char_log, received_text,
                   current_word, wtimer, word_log, communication_active>>
    /\ UNCHANGED <<now, late, switch, conv, client, txvars>>

\* the line is back at its level sooner than the debounce interval
EnvBounceEnd ==
    /\ wiring = "env"
    /\ env.bounce >= 0
    /\ now > env.bounce
    /\ now - env.bounce < debounce_time
    /\ env_pin' = ~env_pin
    /\ env' = [env EXCEPT !.bounce = -1, !.bounces = @ + 1]
    /\ UNCHANGED <<wiring, monitor, received_signals, current_char_signals,
                   last_signal_time, ctimer, char_log, received_text,
                   current_word, wtimer, word_log, communication_active>>
    /\ UNCHANGED <<now, late, switch, conv, client, txvars>>

\* GPIOController.get_receive_state: False in simulation mode, the level of
\* the receive pin with the hardware present
get_receive_state ==
    IF wiring = "sim" THEN FALSE
    ELSE IF wiring = "wire" THEN tx_pin ELSE env_pin

\* the durations of the simulated presses, in the units of MORSE_TIMING:
\* a short press (0.2 s) and a long press (0.5 s)
SwitchDurations == {ShortPress, LongPress}

\* GPIOController.simulate_switch_press: every callback of
\* self.switch_callbacks is called with the duration.  The callbacks are
\* those given to add_switch_callback; SignalReceiver, MorseReceiver and
\* MorseCommunicationManager give none, so the list is as __init__ left it
\* and no callback runs.  The press is kept in the history.
SimulateSwitchPress(duration) ==
    /\ Len(switch.presses) < MaxPresses
    /\ switch' = [switch EXCEPT !.presses = Append(@,
           [duration |-> duration, at |-> now,
            monitoring |-> monitor.pc = "run",
            called |-> Len(switch.callbacks)])]
    /\ UNCHANGED <<now, late, conv, client, txvars, rxvars>>

\* ----------------------------------------------------------- SignalReceiver
\* a classification with the threshold at the dot's duration
ClassifyFor_DotThreshold(timing, duration) ==
    IF duration < timing.dot THEN "." ELSE "-"

\* the threshold of _signal_detected under a timing profile:
\* duration < timing['dash'] * 0.7
ClassifyFor(timing, duration) ==
    IF duration * 10 < timing.dash * 7 THEN "." ELSE "-"

\* the threshold of _signal_detected: duration < MORSE_TIMING['dash'] * 0.7
Classify(duration) == ClassifyFor(MORSE_TIMING, duration)

\* ''.join(self.current_char_signals); a token carries the number of the
\* pulse it came from
JoinSignals(tokens) == [k \in 1..Len(tokens) |-> tokens[k].s]

\* the threads a falling edge may still start a timer for
TokensSeen == Cardinality({k \in Timers : ctimer[k].pc # "none"})

\* the monitor loop with _signal_detected putting the token in front
MonitorPoll_Prepend ==
    /\ monitor.pc = "run"
    /\ now >= monitor.wake
    /\ LET current_state == get_receive_state
           rising == current_state /\ ~monitor.last_state
           falling == ~current_state /\ monitor.last_state
                         /\ monitor.signal_start >= 0
       IN  /\ falling => TokensSeen < MaxPulses
           /\ monitor' = [monitor EXCEPT
                  !.wake = now + PollInterval,
                  !.last_state = current_state,
                  !.signal_start = IF rising THEN now
                                   ELSE IF falling THEN -1 ELSE @]
           /\ IF falling
              THEN /\ current_char_signals' =
                          <<[s |-> Classify(now - monitor.signal_start),
                             n |-> TokensSeen + 1]>> \o current_char_signals
                   /\ last_signal_time' = now
                   /\ ctimer' = [ctimer EXCEPT ![TokensSeen + 1] =
                          [pc |-> "sleep",
                           wake |-> now + MORSE_TIMING.inter_char_gap]]
              ELSE UNCHANGED <<current_char_signals, last_signal_time,
                               ctimer>>
    /\ UNCHANGED <<wiring, env_pin, env, received_signals, char_log,
                   received_text, current_word, wtimer, word_log,
                   communication_active>>
    /\ UNCHANGED <<now, late, switch, conv, client, txvars>>

\* one pass of the loop of monitor_receive_signal: read the line, detect an
\* edge, on a falling edge call SignalReceiver._signal_detected with the
\* duration (classify, append the token, set last_signal_time, start the
\* character timer), then sleep for the polling interval
MonitorPoll ==
    /\ monitor.pc = "run"
    /\ now >= monitor.wake
    /\ LET current_state == get_receive_state
           rising == current_state /\ ~monitor.last_state
           falling == ~current_state /\ monitor.last_state
                         /\ monitor.signal_start >= 0
       IN  /\ falling => TokensSeen < MaxPulses
           /\ monitor' = [monitor EXCEPT
                  !.wake = now + PollInterval,
                  !.last_state = current_state,
                  !.signal_start = IF rising THEN now
                                   ELSE IF falling THEN -1 ELSE @]
           /\ IF falling
              THEN /\ current_char_signals' = Append(current_char_signals,
                          [s |-> Classify(now - monitor.signal_start),
                           n |-> TokensSeen + 1])
                   /\ last_signal_time' = now
                   /\ ctimer' = [ctimer EXCEPT ![TokensSeen + 1] =
                          [pc |-> "sleep",
                           wake |-> now + MORSE_TIMING.inter_char_gap]]
              ELSE UNCHANGED <<current_char_signals, last_signal_time,
                               ctimer>>
    /\ UNCHANGED <<wiring, env_pin, env, received_signals, char_log,
                   received_text, current_word, wtimer, word_log,
                   communication_active>>
    /\ UNCHANGED <<now, late, switch, conv, client, txvars>>

\* monitor_receive_signal, the test of its while loop: not stop_event.is_set()
MonitorTest ==
    /\ monitor.pc = "run"
    /\ now >= monitor.wake
    /\ monitor' = [monitor EXCEPT !.pc =
           IF monitor.stop_event THEN "stopped" ELSE "body"]
    /\ UNCHANGED <<wiring, env_pin, env, received_signals,
                   current_char_signals, last_signal_time, ctimer, char_log,
                   received_text, current_word, wtimer, word_log,
                   communication_active>>
    /\ UNCHANGED <<now, late, switch, conv, client, txvars>>

\* monitor_receive_signal, the body of its while loop after the test: read
\* the line, detect an edge, on a falling edge call _signal_detected, then
\* sleep for the polling interval
MonitorBody ==
    /\ monitor.pc = "body"
    /\ LET current_state == get_receive_state
           rising == current_state /\ ~monitor.last_state
           falling == ~current_state /\ monitor.last_state
                         /\ monitor.signal_start >= 0
       IN  /\ falling => TokensSeen < MaxPulses
           /\ monitor' = [monitor EXCEPT
                  !.pc = "run",
                  !.wake = now + PollInterval,
                  !.last_state = current_state,
                  !.signal_start = IF rising THEN now
                                   ELSE IF falling THEN -1 ELSE @]
           /\ IF falling
              THEN /\ current_char_signals' = Append(current_char_signals,
                          [s |-> Classify(now - monitor.signal_start),
                           n |-> TokensSeen + 1])
                   /\ last_signal_time' = now
                   /\ ctimer' = [ctimer EXCEPT ![TokensSeen + 1] =
                          [pc |-> "sleep",
                           wake |-> now + MORSE_TIMING.inter_char_gap]]
              ELSE UNCHANGED <<current_char_signals, last_signal_time,
                               ctimer>>
    /\ UNCHANGED <<wiring, env_pin, env, received_signals, char_log,
                   received_text, current_word, wtimer, word_log,
                   communication_active>>
    /\ UNCHANGED <<now, late, switch, conv, client, txvars>>

\* SignalReceiver.stop_monitoring up to its join: self.stop_event.set()
StopMonitoring ==
    /\ client.pc = "idle"
    /\ monitor.pc \in {"run", "body"}
    /\ ~monitor.stop_event
    /\ monitor' = [monitor EXCEPT !.stop_event = TRUE]
    /\ client' = [client EXCEPT !.pc = "stop_mon_join", !.op = "stopping"]
    /\ UNCHANGED <<wiring, env_pin, env, received_signals,
                   current_char_signals, last_signal_time, ctimer, char_log,
                   received_text, current_word, wtimer, word_log,
                   communication_active>>
    /\ UNCHANGED <<now, late, switch, conv, txvars>>

\* SignalReceiver.stop_monitoring: self.receive_thread.join() returns
StopMonitoringJoined ==
    /\ client.pc = "stop_mon_join"
    /\ monitor.pc = "stopped"
    /\ client' = [client EXCEPT !.pc = "idle", !.op = "stop_mon"]
    /\ UNCHANGED <<now, late, switch, conv, txvars, rxvars>>

\* the condition of check_char_complete with a gap that must be exceeded
CharComplete_Strict ==
    /\ last_signal_time >= 0
    /\ now - last_signal_time > MORSE_TIMING.inter_char_gap
    /\ current_char_signals # <<>>

\* the condition check_char_complete tests after its sleep
CharComplete ==
    /\ last_signal_time >= 0
    /\ now - last_signal_time >= MORSE_TIMING.inter_char_gap
    /\ current_char_signals # <<>>

\* check_char_complete: the sleep is over, the condition is tested
CharTimerCheck(k) ==
    /\ ctimer[k].pc = "sleep"
    /\ now >= ctimer[k].wake
    /\ ctimer' = [ctimer EXCEPT ![k].pc =
           IF CharComplete THEN "emit" ELSE "done"]
    /\ UNCHANGED <<wiring, env_pin, env, monitor, received_signals,
                   current_char_signals, last_signal_time, char_log,
                   received_text, current_word, wtimer, word_log,
                   communication_active>>
    /\ UNCHANGED <<now, late, switch, conv, client, txvars>>

\* the word timers started so far
WordTimersStarted == Cardinality({k \in Timers : wtimer[k].pc # "none"})

\* check_char_complete: the character is joined, logged and handed to the
\* callback MorseReceiver._on_char_received, which decodes it, appends it to
\* current_word and starts the word timer
CharTimerEmit(k) ==
    /\ ctimer[k].pc = "emit"
    /\ LET morse_char == JoinSignals(current_char_signals)
           text_char == morse_to_text(morse_char)
       IN  /\ received_signals' = Append(received_signals, morse_char)
           /\ char_log' = Append(char_log,
                  [tokens |-> current_char_signals, at |-> now,
                   text |-> text_char, seen_high |-> monitor.last_state,
                   timer |-> k])
           /\ current_word' = current_word \o text_char
    /\ wtimer' = [wtimer EXCEPT ![WordTimersStarted + 1] =
           [pc |-> "sleep", wake |-> now + MORSE_TIMING.inter_word_gap]]
    /\ ctimer' = [ctimer EXCEPT ![k].pc = "reset"]
    /\ UNCHANGED <<wiring, env_pin, env, monitor, current_char_signals,
                   last_signal_time, received_text, word_log,
                   communication_active>>
    /\ UNCHANGED <<now, late, switch, conv, client, txvars>>

\* check_char_complete: self.current_char_signals = []
CharTimerReset(k) ==
    /\ ctimer[k].pc = "reset"
    /\ current_char_signals' = <<>>
    /\ ctimer' = [ctimer EXCEPT ![k].pc = "done"]
    /\ UNCHANGED <<wiring, env_pin, env, monitor, received_signals,
                   last_signal_time, char_log, received_text, current_word,
                   wtimer, word_log, communication_active>>
    /\ UNCHANGED <<now, late, switch, conv, client, txvars>>

\* ------------------------------------------------------------ MorseReceiver
\* check_word_complete without the test that current_word is not empty
WordComplete_AnyWord ==
    /\ monitor.pc # "off"
    /\ Len(current_char_signals) = 0

\* the condition check_word_complete tests after its sleep
WordComplete ==
    /\ monitor.pc # "off"
    /\ Len(current_char_signals) = 0
    /\ current_word # <<>>

\* check_word_complete: the sleep is over, the condition is tested
WordTimerCheck(k) ==
    /\ wtimer[k].pc = "sleep"
    /\ now >= wtimer[k].wake
    /\ wtimer' = [wtimer EXCEPT ![k].pc =
           IF WordComplete THEN "commit" ELSE "done"]
    /\ UNCHANGED <<wiring, env_pin, env, monitor, received_signals,
                   current_char_signals, last_signal_time, ctimer, char_log,
                   received_text, current_word, word_log,
                   communication_active>>
    /\ UNCHANGED <<now, late, switch, conv, client, txvars>>

\* check_word_complete: self.received_text += self.current_word
WordTimerCommit(k) ==
    /\ wtimer[k].pc = "commit"
    /\ received_text' = received_text \o current_word
    /\ wtimer' = [wtimer EXCEPT ![k].pc = "clear"]
    /\ UNCHANGED <<wiring, env_pin, env, monitor, received_signals,
                   current_char_signals, last_signal_time, ctimer, char_log,
                   current_word, word_log, communication_active>>
    /\ UNCHANGED <<now, late, switch, conv, client, txvars>>

\* check_word_complete: the word is taken, current_word is emptied and the
\* text-complete callbacks are called with the word
WordTimerClear(k) ==
    /\ wtimer[k].pc = "clear"
    /\ word_log' = Append(word_log,
           [word |-> current_word, at |-> now, nchars |-> Len(char_log),
            timer |-> k])
    /\ current_word' = <<>>
    /\ wtimer' = [wtimer EXCEPT ![k].pc = "done"]
    /\ UNCHANGED <<wiring, env_pin, env, monitor, received_signals,
                   current_char_signals, last_signal_time, ctimer, char_log,
                   received_text, communication_active>>
    /\ UNCHANGED <<now, late, switch, conv, client, txvars>>

\* get_received_text that leaves the pending word out
get_received_text_Committed == received_text

\* MorseReceiver.get_received_text
get_received_text == received_text \o current_word

\* ------------------------------------------------ MorseCommunicationManager
\* start_communication that starts receiving again when already active
StartCommunication_Again ==
    /\ monitor' = [pc |-> "run", wake |-> now,
                   last_state |-> FALSE, signal_start |-> -1,
                   stop_event |-> FALSE]
    /\ received_signals' = <<>>
    /\ current_char_signals' = <<>>
    /\ last_signal_time' = -1
    /\ communication_active' = TRUE
    /\ client.pc = "idle"
    /\ client' = [client EXCEPT !.op =
           IF communication_active THEN "start_noop" ELSE "start"]
    /\ UNCHANGED <<wiring, env_pin, env, ctimer, char_log, received_text,
                   current_word, wtimer, word_log>>
    /\ UNCHANGED <<now, late, switch, conv, txvars>>

\* start_communication: MorseReceiver.start_receiving creates the
\* SignalReceiver, registers _on_char_received and starts the monitor thread
StartCommunication ==
    /\ IF communication_active
       THEN UNCHANGED <<monitor, received_signals, current_char_signals,
                        last_signal_time, communication_active>>
       ELSE /\ monitor' = [pc |-> "run", wake |-> now,
                           last_state |-> FALSE, signal_start |-> -1,
                   stop_event |-> FALSE]
            /\ received_signals' = <<>>
            /\ current_char_signals' = <<>>
            /\ last_signal_time' = -1
            /\ communication_active' = TRUE
    /\ client.pc = "idle"
    /\ client' = [client EXCEPT !.op =
           IF communication_active THEN "start_noop" ELSE "start"]
    /\ UNCHANGED <<wiring, env_pin, env, ctimer, char_log, received_text,
                   current_word, wtimer, word_log>>
    /\ UNCHANGED <<now, late, switch, conv, txvars>>

\* send_message that does not test communication_active
SendMessage_Unguarded(text) == TransmitText(text)

\* send_message
SendMessage(text) ==
    IF communication_active
    THEN TransmitText(text)
    ELSE /\ caller.pc = "idle"
         /\ last_op' = "send_inactive"
         /\ UNCHANGED <<is_transmitting, stop_transmission, transmit_thread,
                        worker, tx_pin, caller>>
         /\ UNCHANGED <<now, late, switch, conv, client, rxvars>>

\* stop_communication: transmitter.stop_transmit() up to its join
StopCommunication ==
    /\ client.pc = "idle"
    /\ caller.pc = "idle"
    /\ stop_transmission' = TRUE
    /\ worker' = [w \in Workers |->
           IF Live(w) /\ worker[w].stop_mark < 0
           THEN [worker[w] EXCEPT !.stop_mark = UnitReached(w)]
           ELSE worker[w]]
    /\ last_op' = "stop_comm"
    /\ IF transmit_thread # 0
       THEN /\ caller' = [caller EXCEPT !.pc = "join",
                              !.joining = transmit_thread]
            /\ client' = [client EXCEPT !.pc = "stop_join", !.op = "stopping"]
       ELSE /\ caller' = caller
            /\ client' = [client EXCEPT !.pc = "stop_receiving",
                                        !.op = "stopping"]
    /\ UNCHANGED <<is_transmitting, transmit_thread, tx_pin>>
    /\ UNCHANGED <<now, late, switch, conv, rxvars>>

\* stop_communication: transmit_thread.join() returns
StopCommunicationJoined ==
    /\ client.pc = "stop_join"
    /\ caller.pc = "join"
    /\ worker[caller.joining].pc = "done"
    /\ caller' = [caller EXCEPT !.pc = "idle", !.joining = 0]
    /\ client' = [client EXCEPT !.pc = "stop_receiving"]
    /\ UNCHANGED <<is_transmitting, stop_transmission, transmit_thread,
                   worker, tx_pin, last_op>>
    /\ UNCHANGED <<now, late, switch, conv, rxvars>>

\* stop_communication: receiver.stop_receiving() (the monitor thread ends
\* and is joined), then communication_active = False
StopReceiving ==
    /\ client.pc = "stop_receiving"
    /\ monitor' = IF monitor.pc = "off" THEN monitor
                  ELSE [monitor EXCEPT !.pc = "stopped", !.stop_event = TRUE]
    /\ communication_active' = FALSE
    /\ client' = [client EXCEPT !.pc = "idle", !.op = "stop"]
    /\ UNCHANGED <<wiring, env_pin, env, received_signals,
                   current_char_signals, last_signal_time, ctimer, char_log,
                   received_text, current_word, wtimer, word_log>>
    /\ UNCHANGED <<now, late, switch, conv, txvars>>

\* get_received_message, which returns MorseReceiver.get_received_text()
GetReceivedMessage ==
    /\ client.pc = "idle"
    /\ client' = [client EXCEPT !.op = "read", !.read = get_received_text]
    /\ UNCHANGED <<now, late, switch, conv, txvars, rxvars>>

\* the timers started and the events logged so far
Mark ==
    [ctimers |-> TokensSeen, wtimers |-> WordTimersStarted,
     chars |-> Len(char_log), words |-> Len(word_log)]

\* clear_messages calls clear_received_text: self.received_text = ""
ClearText ==
    /\ client.pc = "idle"
    /\ client.clears < MaxClears
    /\ received_text' = <<>>
    /\ client' = [client EXCEPT !.pc = "clear_word", !.op = "clearing",
                                !.before = Mark]
    /\ UNCHANGED <<wiring, env_pin, env, monitor, received_signals,
                   current_char_signals, last_signal_time, ctimer, char_log,
                   current_word, wtimer, word_log, communication_active>>
    /\ UNCHANGED <<now, late, switch, conv, txvars>>

\* clear_received_text: self.current_word = "", and the test of
\* self.signal_receiver
ClearWord ==
    /\ client.pc = "clear_word"
    /\ current_word' = <<>>
    /\ client' = IF monitor.pc = "off"
                 THEN [client EXCEPT !.pc = "idle", !.op = "clear",
                                     !.clears = @ + 1, !.after = Mark]
                 ELSE [client EXCEPT !.pc = "clear_signals"]
    /\ UNCHANGED <<wiring, env_pin, env, monitor, received_signals,
                   current_char_signals, last_signal_time, ctimer, char_log,
                   received_text, wtimer, word_log, communication_active>>
    /\ UNCHANGED <<now, late, switch, conv, txvars>>

\* SignalReceiver.clear_received_signals: self.received_signals.clear()
ClearSignals ==
    /\ client.pc = "clear_signals"
    /\ received_signals' = <<>>
    /\ client' = [client EXCEPT !.pc = "clear_pending"]
    /\ UNCHANGED <<wiring, env_pin, env, monitor, current_char_signals,
                   last_signal_time, ctimer, char_log, received_text,
                   current_word, wtimer, word_log, communication_active>>
    /\ UNCHANGED <<now, late, switch, conv, txvars>>

\* clear_received_signals: self.current_char_signals = [], and the return
\* of clear_messages
ClearPending ==
    /\ client.pc = "clear_pending"
    /\ current_char_signals' = <<>>
    /\ client' = [client EXCEPT !.pc = "idle", !.op = "clear",
                                !.clears = @ + 1, !.after = Mark]
    /\ UNCHANGED <<wiring, env_pin, env, monitor, received_signals,
                   last_signal_time, ctimer, char_log, received_text,
                   current_word, wtimer, word_log, communication_active>>
    /\ UNCHANGED <<now, late, switch, conv, txvars>>

\* ------------------------------------------------- calls of the converter
\* a call of text_to_morse
ConvTextToMorse ==
    /\ conv.pc = "text"
    /\ conv' = [conv EXCEPT !.pc = "encoded", !.morse = text_to_morse(conv.text)]
    /\ UNCHANGED <<now, late, switch, client, txvars, rxvars>>

\* a call of morse_to_text, on a given Morse string or on the result of
\* text_to_morse
ConvMorseToText ==
    /\ conv.pc \in {"morse", "encoded"}
    /\ conv' = [conv EXCEPT
           !.pc = IF conv.pc = "encoded" THEN "round" ELSE "decoded",
           !.back = morse_to_text(conv.morse)]
    /\ UNCHANGED <<now, late, switch, client, txvars, rxvars>>

\* the classification of _signal_detected applied to a duration
ConvClassify ==
    /\ conv.pc = "duration"
    /\ conv' = [conv EXCEPT !.pc = "classified",
                            !.token = ClassifyFor(conv.timing, conv.duration)]
    /\ UNCHANGED <<now, late, switch, client, txvars, rxvars>>

\* ------------------------------------------------------------------- time
\* a boundary-timer thread that must take a step before time passes
TimerDue(t) ==
    \/ t.pc \in {"emit", "reset", "commit", "clear"}
    \/ t.pc = "sleep" /\ now >= t.wake + late

\* no thread has to take a step at this instant
ThreadsIdle ==
    /\ \A w \in Workers : ~WorkerReady(w)
    /\ ~JoinReady
    /\ ~(monitor.pc = "run" /\ now >= monitor.wake)
    /\ monitor.pc # "body"
    /\ \A k \in Timers : ~TimerDue(ctimer[k]) /\ ~TimerDue(wtimer[k])
    /\ client.pc \notin {"clear_word", "clear_signals", "clear_pending",
                         "stop_receiving"}

\* time passes by one tick for the transmitter alone
TickTx ==
    /\ now < MaxTimeTx
    /\ ThreadsIdle
    /\ now' = now + 1
    /\ UNCHANGED <<late, switch, conv, client, txvars, rxvars>>

\* time passes by one tick once the monitor runs
Tick ==
    /\ now < MaxTime
    /\ monitor.pc = "run"
    /\ ThreadsIdle
    /\ now' = now + 1
    /\ UNCHANGED <<late, switch, conv, client, txvars, rxvars>>

\* time passes by one tick while the character timers may be overdue
TickLate ==
    /\ now < MaxTimeLate
    /\ monitor.pc = "run"
    /\ ThreadsIdle
    /\ now' = now + 1
    /\ UNCHANGED <<late, switch, conv, client, txvars, rxvars>>

\* time passes by one tick for a manager whose input line is idle
TickMgr ==
    /\ now < MaxTimeMgr
    /\ ThreadsIdle
    /\ now' = now + 1
    /\ UNCHANGED <<late, switch, conv, client, txvars, rxvars>>

\* time passes by one tick while one message is sent
TickGap ==
    /\ now < MaxTimeGap
    /\ ThreadsIdle
    /\ now' = now + 1
    /\ UNCHANGED <<late, switch, conv, client, txvars, rxvars>>

\* time passes by one tick while the line may bounce; a bounce is over
\* before the debounce interval has passed
TickBounce ==
    /\ now < MaxTimeBounce
    /\ ThreadsIdle
    /\ env.bounce >= 0 => now + 1 - env.bounce < debounce_time
    /\ now' = now + 1
    /\ UNCHANGED <<late, switch, conv, client, txvars, rxvars>>

\* time passes by one tick while the line driver may fail
TickFail ==
    /\ now < MaxTimeFail
    /\ ThreadsIdle
    /\ now' = now + 1
    /\ UNCHANGED <<late, switch, conv, client, txvars, rxvars>>

\* time passes by one tick while the manager may be stopped
TickStopRx ==
    /\ now < MaxTimeStopRx
    /\ ThreadsIdle
    /\ now' = now + 1
    /\ UNCHANGED <<late, switch, conv, client, txvars, rxvars>>

\* time passes by one tick while the monitor may be stopped
TickMon ==
    /\ now < MaxTimeMon
    /\ ThreadsIdle
    /\ client.pc # "stop_mon_join" \/ monitor.pc # "stopped"
    /\ now' = now + 1
    /\ UNCHANGED <<late, switch, conv, client, txvars, rxvars>>

\* time passes by one tick while character and word timers may be overdue
TickLateWord ==
    /\ now < MaxTimeLateWord
    /\ monitor.pc = "run"
    /\ ThreadsIdle
    /\ now' = now + 1
    /\ UNCHANGED <<late, switch, conv, client, txvars, rxvars>>

\* time passes by one tick in simulation mode
TickSwitch ==
    /\ now < MaxTimeSwitch
    /\ ThreadsIdle
    /\ now' = now + 1
    /\ UNCHANGED <<late, switch, conv, client, txvars, rxvars>>

\* time passes by one tick while the client may read the received text
TickRead ==
    /\ now < MaxTimeRead
    /\ monitor.pc = "run"
    /\ ThreadsIdle
    /\ now' = now + 1
    /\ UNCHANGED <<late, switch, conv, client, txvars, rxvars>>

\* time passes by one tick while the client may clear the received text
TickClear ==
    /\ now < MaxTimeClear
    /\ monitor.pc = "run"
    /\ ThreadsIdle
    /\ now' = now + 1
    /\ UNCHANGED <<late, switch, conv, client, txvars, rxvars>>

\* --------------------------------------------------------- specifications
\* the transmitter and its caller alone
InitTx == now = 0 /\ late = 0 /\ wiring = "env" /\ TxInit /\ RxInit /\ ClientInit
    /\ SwitchInit /\ ConvInit

NextTx ==
    \/ \E text \in Texts : TransmitText(text)
    \/ StopTransmit
    \/ StopTransmitReturn
    \/ \E w \in Workers : WorkerStart(w)
    \/ \E w \in Workers : WorkerLoop(w)
    \/ \E w \in Workers : WorkerLow(w)
    \/ \E w \in Workers : WorkerIntraDone(w)
    \/ \E w \in Workers : WorkerGapDone(w)
    \/ \E w \in Workers : WorkerFinally(w)
    \/ \E w \in Workers : WorkerCallback(w)
    \/ TickTx

SpecTx == InitTx /\ [][NextTx]_vars

\* the receive path fed by an external sender, boundary timers on time
Init == now = 0 /\ late = 0 /\ wiring = "env" /\ TxInit /\ RxInit /\ ClientInit
    /\ SwitchInit /\ ConvInit

Next ==
    \/ StartCommunication
    \/ EnvRise
    \/ EnvFall
    \/ MonitorPoll
    \/ \E k \in Timers : CharTimerCheck(k)
    \/ \E k \in Timers : CharTimerEmit(k)
    \/ \E k \in Timers : CharTimerReset(k)
    \/ \E k \in Timers : WordTimerCheck(k)
    \/ \E k \in Timers : WordTimerCommit(k)
    \/ \E k \in Timers : WordTimerClear(k)
    \/ Tick

Spec == Init /\ [][Next]_vars

\* the receive path up to the completed character, with the character
\* timers up to MaxLate ticks overdue
InitLate == now = 0 /\ late = MaxLate /\ wiring = "env" /\ TxInit /\ RxInit /\ ClientInit
    /\ SwitchInit /\ ConvInit

NextLate ==
    \/ StartCommunication
    \/ EnvRise
    \/ EnvFall
    \/ MonitorPoll
    \/ \E k \in Timers : CharTimerCheck(k)
    \/ \E k \in Timers : CharTimerEmit(k)
    \/ \E k \in Timers : CharTimerReset(k)
    \/ TickLate

SpecLate == InitLate /\ [][NextLate]_vars

\* the transmitter wired to the receive pin of the same party
InitLink == now = 0 /\ late = 0 /\ wiring = "wire" /\ TxInit /\ RxInit /\ ClientInit
    /\ SwitchInit /\ ConvInit

\* one message is sent over the link
LinkSend == NumWorkers = 0 /\ \E text \in Texts : SendMessage(text)

NextLink ==
    \/ StartCommunication
    \/ LinkSend
    \/ \E w \in Workers : WorkerStart(w)
    \/ \E w \in Workers : WorkerLoop(w)
    \/ \E w \in Workers : WorkerLow(w)
    \/ \E w \in Workers : WorkerIntraDone(w)
    \/ \E w \in Workers : WorkerGapDone(w)
    \/ \E w \in Workers : WorkerFinally(w)
    \/ \E w \in Workers : WorkerCallback(w)
    \/ MonitorPoll
    \/ \E k \in Timers : CharTimerCheck(k)
    \/ \E k \in Timers : CharTimerEmit(k)
    \/ \E k \in Timers : CharTimerReset(k)
    \/ \E k \in Timers : WordTimerCheck(k)
    \/ \E k \in Timers : WordTimerCommit(k)
    \/ \E k \in Timers : WordTimerClear(k)
    \/ Tick

SpecLink == InitLink /\ [][NextLink]_vars

\* the manager started, used to send and stopped, its input line idle
InitMgr ==
    now = 0 /\ late = 0 /\ wiring = "env" /\ TxInit /\ RxInit /\ ClientInit
    /\ SwitchInit /\ ConvInit

\* a send through the manager, at most MaxSendsMgr of them accepted
MgrSend ==
    /\ communication_active /\ ~is_transmitting => NumWorkers < MaxSendsMgr
    /\ \E text \in Texts : SendMessage(text)

NextMgr ==
    \/ StartCommunication
    \/ MgrSend
    \/ StopCommunication
    \/ StopCommunicationJoined
    \/ StopReceiving
    \/ \E w \in Workers : WorkerStart(w)
    \/ \E w \in Workers : WorkerLoop(w)
    \/ \E w \in Workers : WorkerLow(w)
    \/ \E w \in Workers : WorkerIntraDone(w)
    \/ \E w \in Workers : WorkerGapDone(w)
    \/ \E w \in Workers : WorkerFinally(w)
    \/ \E w \in Workers : WorkerCallback(w)
    \/ MonitorPoll
    \/ TickMgr

SpecMgr == InitMgr /\ [][NextMgr]_vars

\* the manager with a client that makes one call at a time and sends up to
\* two messages that transmit_text accepts
StopSend ==
    /\ client.pc = "idle"
    /\ communication_active /\ ~is_transmitting => NumWorkers < MaxSendsStop
    /\ \E text \in Texts : SendMessage(text)

NextStop ==
    \/ StartCommunication
    \/ StopSend
    \/ StopCommunication
    \/ StopCommunicationJoined
    \/ StopReceiving
    \/ \E w \in Workers : WorkerStart(w)
    \/ \E w \in Workers : WorkerLoop(w)
    \/ \E w \in Workers : WorkerLow(w)
    \/ \E w \in Workers : WorkerIntraDone(w)
    \/ \E w \in Workers : WorkerGapDone(w)
    \/ \E w \in Workers : WorkerFinally(w)
    \/ \E w \in Workers : WorkerCallback(w)
    \/ MonitorPoll
    \/ TickMgr

SpecStop == InitMgr /\ [][NextStop]_vars

\* the receive path with a client that reads the received text
InitRead ==
    now = 0 /\ late = 0 /\ wiring = "env" /\ TxInit /\ RxInit /\ ClientInit
    /\ SwitchInit /\ ConvInit

NextRead ==
    \/ StartCommunication
    \/ EnvRise
    \/ EnvFall
    \/ MonitorPoll
    \/ \E k \in Timers : CharTimerCheck(k)
    \/ \E k \in Timers : CharTimerEmit(k)
    \/ \E k \in Timers : CharTimerReset(k)
    \/ \E k \in Timers : WordTimerCheck(k)
    \/ \E k \in Timers : WordTimerCommit(k)
    \/ \E k \in Timers : WordTimerClear(k)
    \/ GetReceivedMessage
    \/ TickRead

SpecRead == InitRead /\ [][NextRead]_vars

\* the receive path with a client that clears the received text
InitClear ==
    now = 0 /\ late = 0 /\ wiring = "env" /\ TxInit /\ RxInit /\ ClientInit
    /\ SwitchInit /\ ConvInit

NextClear ==
    \/ StartCommunication
    \/ EnvRise
    \/ EnvFall
    \/ MonitorPoll
    \/ \E k \in Timers : CharTimerCheck(k)
    \/ \E k \in Timers : CharTimerEmit(k)
    \/ \E k \in Timers : CharTimerReset(k)
    \/ \E k \in Timers : WordTimerCheck(k)
    \/ \E k \in Timers : WordTimerCommit(k)
    \/ \E k \in Timers : WordTimerClear(k)
    \/ ClearText
    \/ ClearWord
    \/ ClearSignals
    \/ ClearPending
    \/ TickClear

SpecClear == InitClear /\ [][NextClear]_vars

\* the transmitter sending one message of one or two words
GapSend ==
    /\ NumWorkers = 0
    /\ \E text \in GapTexts : TransmitText(text)

NextGap ==
    \/ GapSend
    \/ \E w \in Workers : WorkerStart(w)
    \/ \E w \in Workers : WorkerLoop(w)
    \/ \E w \in Workers : WorkerLow(w)
    \/ \E w \in Workers : WorkerIntraDone(w)
    \/ \E w \in Workers : WorkerGapDone(w)
    \/ \E w \in Workers : WorkerFinally(w)
    \/ \E w \in Workers : WorkerCallback(w)
    \/ TickGap

SpecGap == InitTx /\ [][NextGap]_vars

\* the receive path on a line with contact bounce and glitches
NextBounce ==
    \/ StartCommunication
    \/ EnvRise
    \/ EnvFall
    \/ EnvBounceStart
    \/ EnvBounceEnd
    \/ MonitorPoll
    \/ \E k \in Timers : CharTimerCheck(k)
    \/ \E k \in Timers : CharTimerEmit(k)
    \/ \E k \in Timers : CharTimerReset(k)
    \/ TickBounce

SpecBounce == Init /\ [][NextBounce]_vars

\* the transmitter with a line driver whose calls may raise
FailSend ==
    /\ NumWorkers < MaxSendsFail
    /\ \E text \in Texts : TransmitText(text)

NextFail ==
    \/ FailSend
    \/ \E w \in Workers : WorkerStart(w)
    \/ \E w \in Workers : WorkerLoop(w)
    \/ \E w \in Workers : WorkerLow(w)
    \/ \E w \in Workers : WorkerIntraDone(w)
    \/ \E w \in Workers : WorkerGapDone(w)
    \/ \E w \in Workers : WorkerHighFails(w)
    \/ \E w \in Workers : WorkerLowFails(w)
    \/ \E w \in Workers : WorkerFinally(w)
    \/ \E w \in Workers : WorkerCallback(w)
    \/ TickFail

SpecFail == InitTx /\ [][NextFail]_vars

\* the receive path with a client that starts and stops the manager
NextStopRx ==
    \/ StartCommunication
    \/ StopCommunication
    \/ StopReceiving
    \/ EnvRise
    \/ EnvFall
    \/ MonitorPoll
    \/ \E k \in Timers : CharTimerCheck(k)
    \/ \E k \in Timers : CharTimerEmit(k)
    \/ \E k \in Timers : CharTimerReset(k)
    \/ TickStopRx

SpecStopRx == Init /\ [][NextStopRx]_vars

\* the monitor thread with the test and the body of its loop as separate
\* steps, on a driven line or in simulation mode, and a stop_monitoring
InitMon ==
    /\ now = 0 /\ late = 0 /\ wiring \in {"env", "sim"} /\ TxInit /\ RxInit
    /\ ClientInit /\ SwitchInit /\ ConvInit

NextMon ==
    \/ StartCommunication
    \/ EnvRise
    \/ EnvFall
    \/ MonitorTest
    \/ MonitorBody
    \/ StopMonitoring
    \/ StopMonitoringJoined
    \/ \E k \in Timers : CharTimerCheck(k)
    \/ \E k \in Timers : CharTimerEmit(k)
    \/ \E k \in Timers : CharTimerReset(k)
    \/ TickMon

SpecMon == InitMon /\ [][NextMon]_vars

\* the receive path with character and word timers up to MaxLate overdue
NextLateWord ==
    \/ StartCommunication
    \/ EnvRise
    \/ EnvFall
    \/ MonitorPoll
    \/ \E k \in Timers : CharTimerCheck(k)
    \/ \E k \in Timers : CharTimerEmit(k)
    \/ \E k \in Timers : CharTimerReset(k)
    \/ \E k \in Timers : WordTimerCheck(k)
    \/ \E k \in Timers : WordTimerCommit(k)
    \/ \E k \in Timers : WordTimerClear(k)
    \/ TickLateWord

SpecLateWord == InitLate /\ [][NextLateWord]_vars

\* simulation mode (GPIOController(simulation_mode=True)): communication is
\* started and the switch is pressed through simulate_switch_press
InitSwitch ==
    now = 0 /\ late = 0 /\ wiring = "sim" /\ TxInit /\ RxInit /\ ClientInit
    /\ SwitchInit /\ ConvInit

NextSwitch ==
    \/ StartCommunication
    \/ \E duration \in SwitchDurations : SimulateSwitchPress(duration)
    \/ MonitorPoll
    \/ TickSwitch

SpecSwitch == InitSwitch /\ [][NextSwitch]_vars

\* the converter and the classification applied to given inputs
InitConv ==
    /\ now = 0 /\ late = 0 /\ wiring = "env" /\ TxInit /\ RxInit
    /\ ClientInit /\ SwitchInit
    /\ \/ \E text \in ConvTexts :
              conv = [NoConv EXCEPT !.pc = "text", !.text = text]
       \/ \E morse \in ConvMorse :
              conv = [NoConv EXCEPT !.pc = "morse", !.morse = morse]
       \/ \E timing \in Profiles, duration \in 0..MaxDur :
              conv = [NoConv EXCEPT !.pc = "duration", !.timing = timing,
                                    !.duration = duration]

NextConv ==
    \/ ConvTextToMorse
    \/ ConvMorseToText
    \/ ConvClassify

SpecConv == InitConv /\ [][NextConv]_vars

\* ================================================================= claims

\* ---- end to end

\* str.upper() of a text
UpperText(text) == [k \in 1..Len(text) |-> Upper(text[k])]

\* nothing is left to happen on the link: every worker and boundary timer
\* has finished, the line is low and the monitor has seen it low
LinkQuiet ==
    /\ monitor.pc = "run"
    /\ \A w \in Workers : worker[w].pc \in {"none", "done"}
    /\ \A k \in Timers :
          ctimer[k].pc \in {"none", "done"} /\ wtimer[k].pc \in {"none", "done"}
    /\ ~tx_pin
    /\ ~monitor.last_state
    /\ current_char_signals = <<>>

\* C1: with the output line wired to the input line and communication
\* started, once an accepted message has been transmitted and the link has
\* come to rest, get_received_message returns uppercase(text) and the
\* characters were decoded from the codes text_to_morse produced
C1_EndToEnd ==
    (worker[1].pc = "done" /\ LinkQuiet) =>
        /\ get_received_text = UpperText(worker[1].text)
        /\ received_signals = Split(text_to_morse(worker[1].text), " ")

\* ---- transmitter

\* C2: at most one transmission is in flight: a transmit_text call made
\* after an accepted call and before that call's worker has finished is
\* rejected, so no two worker threads exist at the same time
C2_OneInFlight == Cardinality({w \in Workers : Live(w)}) <= 1

\* MorseConverter.get_morse_timing of every dot and dash of a Morse string
TokenDurations(morse) ==
    LET tokens == SelectSeq(morse, LAMBDA sym : sym \in {".", "-"})
    IN  [k \in 1..Len(tokens) |->
            IF tokens[k] = "." THEN MORSE_TIMING.dot ELSE MORSE_TIMING.dash]

\* C3: a transmission that ran to completion without cancellation has
\* driven one pulse per dot and dash of text_to_morse(text), in order, each
\* of the dot or dash duration
C3_PulsePerToken ==
    \A w \in Workers :
        worker[w].pc = "done" /\ ~worker[w].cancelled
            => worker[w].pulses =
                   TokenDurations(text_to_morse(worker[w].text))

\* C9: once stop_transmit has been called while a send is in flight, the
\* worker starts no pulse and no gap wait for a unit after the one it had
\* reached
C9_NoUnitAfterStop ==
    \A w \in Workers :
        worker[w].stop_mark >= 0 => worker[w].acted <= worker[w].stop_mark

\* C10: when stop_transmit has returned (and no call was made since), no
\* transmission worker is running and is_transmitting is False
C10_StopJoins ==
    last_op = "stop" =>
        /\ \A w \in Workers : ~Live(w)
        /\ is_transmitting = FALSE

\* ---- receive path

\* the pulses a completed-character event is made of
TokenIds(ev) == {ev.tokens[k].n : k \in 1..Len(ev.tokens)}

\* the pulses of a group of the external sender
GroupOf(g) == {p \in 1..env.pulses : env.group[p] = g}

\* C4: with more than inter_char_gap of silence after each group of pulses
\* and less inside a group, every completed-character event holds the tokens
\* of one whole group, in order and classified by their durations, and no
\* group has two events
C4_OneEventPerGroup ==
    \A e \in 1..Len(char_log) :
        LET ev == char_log[e]
        IN  /\ TokenIds(ev) = GroupOf(env.group[ev.tokens[1].n])
            /\ \A k \in 1..Len(ev.tokens) :
                  /\ k > 1 => ev.tokens[k - 1].n < ev.tokens[k].n
                  /\ ev.tokens[k].n <= Len(env.dur) =>
                        ev.tokens[k].s = Classify(env.dur[ev.tokens[k].n])
            /\ \A f \in 1..Len(char_log) :
                  f # e => TokenIds(char_log[f]) # TokenIds(ev)

\* C5: no completed-character event is emitted while a pulse is in
\* progress, that is after the monitor saw the line rise and before it saw
\* it fall
C5_NoEmitDuringPulse == \A e \in 1..Len(char_log) : ~char_log[e].seen_high

\* C6: no token is contained in two completed-character events, however
\* late a stale character timer runs
C6_NoDoubleEmit ==
    \A e, f \in 1..Len(char_log) :
        e # f => TokenIds(char_log[e]) \cap TokenIds(char_log[f]) = {}

\* C7: a word is committed no earlier than inter_word_gap after the
\* character that completed last before the commit
C7_WordAfterGap ==
    \A v \in 1..Len(word_log) :
        word_log[v].nchars > 0 =>
            word_log[v].at - char_log[word_log[v].nchars].at
                >= MORSE_TIMING.inter_word_gap

\* two characters have completed and nothing else has arrived or is pending
TwoCharsNoFurtherInput ==
    /\ Len(char_log) = 2
    /\ current_char_signals = <<>>
    /\ ~env_pin
    /\ ~monitor.last_state
    /\ TokensSeen = Len(char_log[1].tokens) + Len(char_log[2].tokens)
    /\ \A k \in Timers : ctimer[k].pc \in {"none", "done"}

\* the two characters belong to one word: the second completed within
\* inter_word_gap of the first
SameWord == char_log[2].at - char_log[1].at <= MORSE_TIMING.inter_word_gap

\* every word timer has run
WordTimersDone == \A k \in Timers : wtimer[k].pc \in {"none", "done"}

\* the decoded text of the two characters, in order
BothChars == char_log[1].text \o char_log[2].text

\* C8: two completed characters of a word, with no further input: there is
\* never more than one text-complete notification, a notification carries
\* the decoded text of both characters and that text is what received_text
\* holds, and once inter_word_gap has passed and the word timers have run
\* there is exactly one notification and current_word is empty
C8_TwoCharsOneWord ==
    (TwoCharsNoFurtherInput /\ SameWord) =>
        /\ Len(word_log) <= 1
        /\ Len(word_log) = 1 =>
              /\ word_log[1].word = BothChars
              /\ received_text = BothChars
        /\ WordTimersDone =>
              /\ Len(word_log) = 1
              /\ current_word = <<>>
              /\ received_text = BothChars
              /\ now - char_log[2].at >= MORSE_TIMING.inter_word_gap

\* C8 as stated, for any two completed characters however far apart: once
\* inter_word_gap has passed after the second and the word timers have run,
\* there is exactly one notification, it carries both characters, and
\* received_text holds that text once
C8_AnyTwoChars ==
    (/\ TwoCharsNoFurtherInput
     /\ WordTimersDone
     /\ now - char_log[2].at >= MORSE_TIMING.inter_word_gap) =>
        /\ Len(word_log) = 1
        /\ word_log[1].word = BothChars
        /\ received_text = BothChars
        /\ current_word = <<>>

\* C8 witness: the two characters were committed as one word
C8_Witness ==
    /\ TwoCharsNoFurtherInput
    /\ SameWord
    /\ WordTimersDone
    /\ Len(word_log) = 1
    /\ Len(BothChars) = 2

\* ---- transmitter: cancellation, completion, state

\* stop_transmit has returned, no call was made since, and the transmission
\* it joined was a multi-character one that it cancelled
StopCancelledMultiChar ==
    /\ last_op = "stop"
    /\ transmit_thread # 0
    /\ worker[transmit_thread].cancelled
    /\ Len(worker[transmit_thread].morse_chars) > 1

\* C11: after stop_transmit returns from cancelling a multi-character
\* transmission, the output line is Low and, no send having been made, stays
\* Low; the transmitter is idle, so the next transmit_text is accepted; and
\* a transmission is only ever cancelled by a stop requested during its own
\* lifetime, so the earlier request does not abort the next one
C11_LowAfterCancel ==
    /\ StopCancelledMultiChar => ~tx_pin /\ ~is_transmitting
    /\ \A w \in Workers : worker[w].cancelled => worker[w].stop_mark >= 0

\* C12: every accepted transmit_text leads to exactly one invocation of its
\* completion callback (none before the worker ends, one when it has ended),
\* and is_transmitting is False when the callback runs
C12_CallbackOnceWhenIdle ==
    /\ [](\A w \in Workers :
             worker[w].callbacks = IF worker[w].pc = "done" THEN 1 ELSE 0)
    /\ [][\A w \in Workers :
             worker'[w].callbacks > worker[w].callbacks => ~is_transmitting]_vars

\* C13: when transmit_text has returned True, is_transmitting is True for as
\* long as the worker it started has not finished
C13_TransmittingOnReturn ==
    \A w \in Workers :
        Live(w) /\ worker[w].pc # "callback" => is_transmitting

\* C14: a send rejected as busy starts no worker, does not replace
\* transmit_thread and changes neither is_transmitting, the stop flag, the
\* line nor the progress of the transmission in flight
C14_BusyRejectionNoEffect ==
    [][last_op' = "send_busy" /\ last_op # "send_busy" =>
          UNCHANGED <<worker, transmit_thread, is_transmitting,
                      stop_transmission, tx_pin, caller>>]_vars

\* C14 witness: a send was rejected while a transmission was in flight, and
\* that transmission is still the one stop_transmit would join
C14_Witness ==
    /\ last_op = "send_busy"
    /\ transmit_thread # 0
    /\ Live(transmit_thread)
    /\ worker[transmit_thread].pc = "high"

\* ---- received text: reading and clearing

\* C15: get_received_message returns received_text followed by the pending
\* word and changes no state of the receiver or the transmitter
C15_ReadIsTextPlusPending ==
    [][client'.op = "read" /\ client' # client =>
          /\ client'.read = received_text \o current_word
          /\ UNCHANGED <<now, late, switch, conv, txvars, rxvars>>]_vars

\* C15 witness: the caller has read a text whose last character belongs to
\* a word that is not committed yet
C15_Witness ==
    /\ client.op = "read"
    /\ received_text # <<>>
    /\ current_word # <<>>
    /\ client.read = received_text \o current_word

\* clear_messages has returned and the client has made no call since
Cleared == client.op = "clear" /\ client.pc = "idle"

\* a character has completed since the clear was called that holds a token
\* detected after the clear was called
CharReceivedAfterClear ==
    \E e \in (client.before.chars + 1)..Len(char_log) :
        \E k \in 1..Len(char_log[e].tokens) :
            char_log[e].tokens[k].n > client.before.ctimers

\* C16: after clear_messages has returned, get_received_message returns the
\* empty string until a character received after the clear has completed
C16_EmptyAfterClear ==
    (Cleared /\ ~CharReceivedAfterClear) => get_received_text = <<>>

\* C17: a boundary timer armed before clear_messages was called never emits
\* a completed character, nor commits a word, after the clear has returned
C17_ClearCancelsTimers ==
    Cleared =>
        /\ \A e \in (client.after.chars + 1)..Len(char_log) :
              char_log[e].tokens # <<>> =>
                  char_log[e].timer > client.before.ctimers
        /\ \A v \in (client.after.words + 1)..Len(word_log) :
              word_log[v].word # <<>> =>
                  word_log[v].timer > client.before.wtimers

\* C18: the step of clear_received_signals leaves the completed characters
\* that get_received_signals returns unchanged
C18_ClearKeepsCompleted ==
    [][client.pc = "clear_signals" /\ client'.pc = "clear_pending" =>
          received_signals' = received_signals]_vars

\* ---- manager

\* C19: send_message returns False whenever communication is not active and
\* then starts no worker and changes nothing of the transmitter; a worker is
\* only started while communication is active, and then the result is that
\* of transmit_text: accepted when idle, rejected as busy when transmitting
C19_SendNeedsActive ==
    [][/\ last_op' = "send_inactive" /\ last_op # "send_inactive" =>
             /\ ~communication_active
             /\ UNCHANGED <<worker, transmit_thread, is_transmitting,
                            stop_transmission, tx_pin, caller>>
       /\ NumWorkers' > NumWorkers =>
             communication_active /\ ~is_transmitting /\ last_op' = "send_ok"
       /\ last_op' = "send_busy" /\ last_op # "send_busy" =>
             communication_active /\ is_transmitting
       /\ last_op' \in {"send_ok", "send_busy"} /\ last_op' # last_op =>
             communication_active]_vars

\* C19 witness: a send was refused after stop_communication, following an
\* earlier transmission that had been accepted
C19_Witness ==
    /\ last_op = "send_inactive"
    /\ client.op = "stop"
    /\ ~communication_active
    /\ NumWorkers >= 1

\* C20: start_communication called while communication is active changes
\* nothing: the monitor thread, PendingCharacter, PendingWord, received_text,
\* the completed characters and the transmitter stay as they are and
\* communication_active stays True
C20_StartIdempotent ==
    [][client'.op = "start_noop" /\ client.op # "start_noop" =>
          /\ communication_active
          /\ communication_active'
          /\ UNCHANGED <<now, late, switch, conv, txvars, rxvars>>]_vars

\* C20 witness: start_communication was called again with the receiver
\* running, a token pending and a character in the pending word
C20_Witness ==
    /\ client.op = "start_noop"
    /\ communication_active
    /\ monitor.pc = "run"
    /\ current_char_signals # <<>>
    /\ current_word # <<>>

\* C21: when stop_communication has returned, communication_active is
\* False, the monitoring thread has ended and no transmission worker is
\* running, whatever was called before (also with no start before the stop)
C21_StopStopsAll ==
    client.op = "stop" =>
        /\ ~communication_active
        /\ monitor.pc \in {"off", "stopped"}
        /\ \A w \in Workers : ~Live(w)

\* the positions of the spaces of a string
SpaceAt(str) == {i \in 1..Len(str) : str[i] = " "}

\* the number of space-separated tokens of a string
NumTokens(str) == Cardinality(SpaceAt(str)) + 1

\* the position of the n-th space of a string
NthSpace(str, n) ==
    CHOOSE i \in SpaceAt(str) : Cardinality({j \in SpaceAt(str) : j <= i}) = n

\* the k-th space-separated token of a string
TokenAt(str, k) ==
    SubSeq(str, IF k = 1 THEN 1 ELSE NthSpace(str, k - 1) + 1,
                IF k = NumTokens(str) THEN Len(str) ELSE NthSpace(str, k) - 1)

\* a character of the supported alphabet, in either case
Supported(c) == Upper(c) \in DOMAIN MORSE_CODE_DICT

AllSupported(text) == \A k \in 1..Len(text) : Supported(text[k])

\* C22: round trip: morse_to_text(text_to_morse(text)) is uppercase(text)
\* for every single supported character and for every text made of
\* supported characters and spaces
C22_RoundTrip ==
    conv.pc = "round" /\ AllSupported(conv.text) =>
        conv.back = UpperText(conv.text)

C22_Witness ==
    /\ conv.pc = "round"
    /\ conv.text = <<"e", " ", "T">>
    /\ conv.morse = <<".", " ", "/", " ", "-">>
    /\ conv.back = <<"E", " ", "T">>

\* C23: text_to_morse(text) is the codes of the characters of
\* uppercase(text) joined by single spaces, a space of the text giving the
\* token '/'; the result is the same for lower and upper case, '' for the
\* empty text, '... --- ...' for 'SOS' and
\* '.... . .-.. .-.. --- / .-- --- .-. .-.. -..' for 'HELLO WORLD'
C23_CodesJoined ==
    conv.pc \in {"encoded", "round"} /\ AllSupported(conv.text) =>
        /\ conv.text = <<>> => conv.morse = <<>>
        /\ conv.text # <<>> =>
              /\ NumTokens(conv.morse) = Len(conv.text)
              /\ \A k \in 1..Len(conv.text) :
                    /\ TokenAt(conv.morse, k) =
                           MORSE_CODE_DICT[Upper(conv.text[k])]
                    /\ conv.text[k] = " " => TokenAt(conv.morse, k) = <<"/">>
        /\ conv.morse = text_to_morse(UpperText(conv.text))
        /\ conv.text = SOS =>
              conv.morse = <<".", ".", ".", " ", "-", "-", "-", " ", ".", ".", ".">>
        /\ conv.text = HELLO_WORLD =>
              conv.morse =
                  <<".", ".", ".", ".", " ", ".", " ", ".", "-", ".", ".",
                  " ", ".", "-", ".", ".", " ", "-", "-", "-", " ", "/",
                  " ", ".", "-", "-", " ", "-", "-", "-", " ", ".", "-",
                  ".", " ", ".", "-", ".", ".", " ", "-", ".", ".">>

C23_Witness ==
    /\ conv.pc = "encoded"
    /\ conv.text = HELLO_WORLD
    /\ NumTokens(conv.morse) = Len(HELLO_WORLD)
    /\ TokenAt(conv.morse, 6) = <<"/">>

\* the placeholder for a character without an entry in the code table
Placeholder == <<"-", ".", "-", ".", "-", "-">>

\* C24: text_to_morse emits the placeholder '-.-.--' at the position of
\* every character that has no entry in the code table and converts the
\* other characters normally
C24_PlaceholderForUnmapped ==
    conv.pc \in {"encoded", "round"} /\ conv.text # <<>> =>
        /\ NumTokens(conv.morse) = Len(conv.text)
        /\ \A k \in 1..Len(conv.text) :
              TokenAt(conv.morse, k) =
                  IF Supported(conv.text[k])
                  THEN MORSE_CODE_DICT[Upper(conv.text[k])]
                  ELSE Placeholder

\* the character of a code: the code table read backwards, '/' a space,
\* anything else '?'
DecodeToken(code) ==
    IF \E c \in DOMAIN MORSE_CODE_DICT : MORSE_CODE_DICT[c] = code
    THEN CHOOSE c \in DOMAIN MORSE_CODE_DICT : MORSE_CODE_DICT[c] = code
    ELSE IF code = <<"/">> THEN " " ELSE "?"

\* C25: morse_to_text gives the empty text for the empty input and
\* otherwise exactly one character per space-separated token, in order:
\* the character of a known code, a space for '/', '?' for any other token
C25_OneCharPerToken ==
    conv.pc = "decoded" =>
        IF conv.morse = <<>> THEN conv.back = <<>>
        ELSE /\ Len(conv.back) = NumTokens(conv.morse)
             /\ \A k \in 1..Len(conv.back) :
                   conv.back[k] = DecodeToken(TokenAt(conv.morse, k))

C25_Witness ==
    /\ conv.pc = "decoded"
    /\ conv.morse = <<"-", "/", " ", ".">>
    /\ conv.back = <<"?", "E">>

\* C26 as stated: a duration is a Dot iff it is below 0.7 of the dash's
\* duration, and under every timing profile with dash > dot the dot's
\* duration is classified as a Dot and the dash's duration as a Dash
C26_AnyProfile ==
    conv.pc = "classified" =>
        /\ conv.token = "." <=> conv.duration * 10 < conv.timing.dash * 7
        /\ conv.token \in {".", "-"}
        /\ conv.duration = conv.timing.dot => conv.token = "."
        /\ conv.duration = conv.timing.dash => conv.token = "-"

\* C26: a duration is a Dot iff it is below 0.7 of the dash's duration and
\* a Dash otherwise; under every timing profile whose dot is shorter than
\* 0.7 of its dash, the profile in use among them, the dot's duration is
\* classified as a Dot and the dash's duration as a Dash
C26_DotBelowThreshold ==
    /\ MORSE_TIMING.dot * 10 < MORSE_TIMING.dash * 7
    /\ Classify(MORSE_TIMING.dot) = "."
    /\ Classify(MORSE_TIMING.dash) = "-"
    /\ conv.pc = "classified" =>
          /\ conv.token = "." <=> conv.duration * 10 < conv.timing.dash * 7
          /\ conv.token \in {".", "-"}
          /\ conv.timing.dot * 10 < conv.timing.dash * 7
                 /\ conv.duration = conv.timing.dot => conv.token = "."
          /\ conv.duration = conv.timing.dash => conv.token = "-"

C26_Witness ==
    /\ conv.pc = "classified"
    /\ conv.timing.dot * 10 < conv.timing.dash * 7
    /\ conv.timing.dot = MORSE_TIMING.dot
    /\ conv.timing.dash = MORSE_TIMING.dash
    /\ conv.duration = conv.timing.dot
    /\ conv.token = "."

\* the character notification a press should lead to: an event after the
\* press that carries the token of the press's duration
Notified(p) ==
    \E e \in 1..Len(char_log) :
        /\ char_log[e].at >= switch.presses[p].at
        /\ JoinSignals(char_log[e].tokens) =
               <<Classify(switch.presses[p].duration)>>

\* nothing is pending on the receive path: no boundary timer is running,
\* no pulse is being measured and no token waits for its character
SwitchQuiet ==
    /\ \A k \in Timers : ctimer[k].pc \in {"none", "done"}
    /\ ~monitor.last_state
    /\ current_char_signals = <<>>

\* C27: a press simulated while monitoring is active leads to a character
\* notification with '.' for a short press and '-' for a long press: once
\* the press and the character gap are over and nothing is pending on the
\* receive path, the notification has been delivered
C27_PressNotifies ==
    \A p \in 1..Len(switch.presses) :
        /\ switch.presses[p].monitoring
        /\ monitor.pc = "run"
        /\ now > switch.presses[p].at + switch.presses[p].duration
                   + MORSE_TIMING.inter_char_gap + PollInterval
        /\ SwitchQuiet
        => Notified(p)

\* a fixed size for the log of completed characters: whatever the size, the
\* sender can complete more characters than it; here one fewer than the
\* pulses the sender makes
LogCap == MaxPulses - 1

\* C28: the log of completed characters never holds more than a fixed
\* number of entries (the oldest is evicted when a character is appended
\* to a full log)
C28_LogBounded == Len(received_signals) <= LogCap

\* the tokens are consecutive pulses of the observed stream, in order
InOrderRun(tokens) ==
    \A i \in 1..(Len(tokens) - 1) : tokens[i + 1].n = tokens[i].n + 1

\* C29: a call of _signal_detected (a falling edge seen by the monitor)
\* appends exactly one token, that of the newest pulse, at the end of
\* PendingCharacter and leaves the earlier tokens as they were; the tokens
\* of PendingCharacter and of every completed character are a contiguous
\* in-order run of the observed token stream
C29_TokensInOrder ==
    [][/\ TokensSeen' > TokensSeen =>
             /\ Len(current_char_signals') = Len(current_char_signals) + 1
             /\ SubSeq(current_char_signals', 1, Len(current_char_signals))
                    = current_char_signals
             /\ current_char_signals'[Len(current_char_signals')].n
                    = TokensSeen'
       /\ InOrderRun(current_char_signals')
       /\ \A e \in 1..Len(char_log') : InOrderRun(char_log'[e].tokens)]_vars

C29_Witness ==
    \E e \in 1..Len(char_log) :
        /\ Len(char_log[e].tokens) = 2
        /\ char_log[e].tokens[1].n = 2
        /\ char_log[e].tokens[2].n = 3

\* C30: when a completed character is emitted, PendingCharacter is not
\* empty and at least inter_char_gap has passed since last_signal_time,
\* the time the most recent token was appended
C30_EmitAfterGap ==
    [][\A k \in Timers :
          ctimer[k].pc = "emit" /\ ctimer'[k].pc = "reset" =>
              /\ current_char_signals # <<>>
              /\ last_signal_time >= 0
              /\ now - last_signal_time >= MORSE_TIMING.inter_char_gap]_vars

\* the decoded text of the first n completed characters, in order
RECURSIVE DecodedUpTo(_)
DecodedUpTo(n) ==
    IF n = 0 THEN <<>> ELSE DecodedUpTo(n - 1) \o char_log[n].text

\* C31: with no clear, whatever the interleaving of reads, character
\* completions and word commits, get_received_text returns the decoded
\* text of all completed characters in order, each exactly once
C31_ReadIsAllDecoded ==
    [][client'.op = "read" /\ client' # client =>
          client'.read = DecodedUpTo(Len(char_log))]_vars

\* the token of pulse n is part of a completed character
Emitted(n) ==
    \E e \in 1..Len(char_log) :
        \E i \in 1..Len(char_log[e].tokens) : char_log[e].tokens[i].n = n

\* C32: no token is lost at a character boundary: when a character timer
\* resets PendingCharacter, every token in it, also one appended after the
\* timer read it, is part of a completed character
C32_NoTokenLostAtReset ==
    [][\A k \in Timers :
          ctimer[k].pc = "reset" /\ ctimer'[k].pc = "done" =>
              \A i \in 1..Len(current_char_signals) :
                  Emitted(current_char_signals[i].n)]_vars

\* a is b with some elements left out
RECURSIVE IsSubseq(_, _)
IsSubseq(a, b) ==
    IF a = <<>> THEN TRUE
    ELSE IF b = <<>> THEN FALSE
    ELSE IF Head(a) = Head(b) THEN IsSubseq(Tail(a), Tail(b))
    ELSE IsSubseq(a, Tail(b))

\* the silence after which the last pulse has been seen, its character
\* timer and the word timer that follows have run, each at most `late` late
SilenceDone ==
    PollInterval + MORSE_TIMING.inter_char_gap + MORSE_TIMING.inter_word_gap
        + 2 * late

\* the monitor is running and no pulse has arrived for that long
PulsesStopped ==
    monitor.pc = "run" /\ ~env_pin /\ now - env.last_edge > SilenceDone

GapStep(w) ==
    LET wk == worker[w]
        wk2 == worker'[w]
        chars == wk.morse_chars
        isLast == wk.i = Len(chars)
        beforeSep == wk.i < Len(chars) /\ chars[wk.i + 1] = <<"/">>
        atSep == wk.i \in 1..Len(chars) /\ chars[wk.i] = <<"/">>
    IN  /\ wk.pc = "loop" /\ wk2.pc # wk.pc /\ atSep /\ ~stop_transmission =>
              /\ wk2.pc = "word"
              /\ wk2.wake = now + MORSE_TIMING.inter_word_gap
              /\ wk2.pulses = wk.pulses
              /\ tx_pin' = tx_pin
        /\ wk2.pc = "word" /\ wk.pc # "word" => wk.pc = "loop" /\ atSep
        /\ wk2.pc = "high" /\ wk.pc # "high" => ~atSep
        /\ wk.pc = "word" /\ wk2.pc # wk.pc =>
              now >= wk.wake /\ wk2.pc = "loop" /\ wk2.i = wk.i + 1
        /\ wk.pc = "intra" /\ wk2.pc # wk.pc =>
              /\ now >= wk.wake
              /\ IF isLast \/ beforeSep
                 THEN wk2.pc = "loop" /\ wk2.i = wk.i + 1
                 ELSE /\ wk2.pc = "inter"
                      /\ wk2.wake = now + MORSE_TIMING.inter_char_gap
        /\ wk2.pc = "inter" /\ wk.pc # "inter" =>
              /\ wk.pc \in {"intra", "loop"}
              /\ ~isLast /\ ~beforeSep /\ ~atSep
              /\ wk2.wake = now + MORSE_TIMING.inter_char_gap
        /\ wk.pc = "inter" /\ wk2.pc # wk.pc =>
              now >= wk.wake /\ wk2.pc = "loop" /\ wk2.i = wk.i + 1

\* C34: for a word separator '/' the worker emits no pulse and waits
\* inter_word_gap; after a character that is followed by another character
\* it waits inter_char_gap, after the intra_char_gap of its pulse; after the
\* last character and after a character followed by '/' it waits no
\* inter_char_gap
C34_Gaps == [][\A w \in Workers : GapStep(w)]_vars

\* a message of two words has been sent: the pulses of both characters and
\* the word gap between them
C34_Witness ==
    \E w \in Workers :
        /\ worker[w].pc = "done"
        /\ worker[w].morse_chars = <<<<".">>, <<"/">>, <<"-">>>>
        /\ Len(worker[w].pulses) = 2

\* C35: the monitor calls its callback once for each pulse it observes,
\* with a non-negative duration: only when it reads the line low after it
\* saw it high and recorded the rising edge, never more often than pulses
\* have ended, never in simulation mode, and never after the stop event
\* is set
C35_OneCallbackPerPulse ==
    [][TokensSeen' > TokensSeen =>
          /\ TokensSeen' = TokensSeen + 1
          /\ ~get_receive_state
          /\ monitor.last_state
          /\ monitor.signal_start >= 0
          /\ now - monitor.signal_start >= 0
          /\ TokensSeen' <= Len(env.dur)
          /\ wiring # "sim"
          /\ ~monitor.stop_event]_vars

\* C36: after stop_communication has returned and until the next start no
\* character or word notification is delivered and received_text and the
\* pending word stay as they are
C36_SilentAfterStop ==
    [][client.op = "stop" /\ client.pc = "idle" /\ client'.op = "stop" =>
          /\ char_log' = char_log
          /\ word_log' = word_log
          /\ received_text' = received_text
          /\ current_word' = current_word]_vars

\* C37: when a driver call raises inside a worker, the worker still sets
\* is_transmitting to False and calls the completion callback exactly
\* once, the caller of transmit_text is not affected, and transmit_text is
\* rejected afterwards only while some worker is still running
C37_DriverFailureRecovered ==
    [][/\ \A w \in Workers :
             /\ worker'[w].failed /\ ~worker[w].failed =>
                   /\ worker'[w].pc = "finally"
                   /\ caller' = caller /\ last_op' = last_op
             /\ worker[w].failed /\ worker[w].pc = "finally"
                   /\ worker'[w].pc # "finally" => ~is_transmitting'
             /\ worker'[w].failed /\ worker'[w].pc = "done" =>
                   worker'[w].callbacks = 1
             /\ worker'[w].callbacks <= 1
       /\ last_op' = "send_busy" /\ last_op # "send_busy" =>
             \E w \in Workers : Live(w)]_vars

\* a worker failed at set_transmit_low and has ended with its callback
\* called; the next transmit_text has been accepted
C37_Witness ==
    /\ worker[1].failed
    /\ worker[1].pc = "done"
    /\ worker[1].callbacks = 1
    /\ worker[1].pulses = <<>>
    /\ tx_pin
    /\ worker[2].pc = "start"
    /\ last_op = "send_ok"

\* C38: edges closer together than the debounce interval are collapsed, so
\* a bounce inside a pulse and a glitch give no token of their own: there
\* are never more tokens than pulses that have ended
C38_Debounced == TokensSeen <= Len(env.dur)

\* C39: after one pulse of a dot's length has been reported to
\* _signal_detected and more than inter_char_gap has passed with no further
\* pulse, current_char_signals still holds exactly the one token '.'
C39_DotStillPending ==
    /\ TokensSeen = 1
    /\ env.pulses = 1
    /\ env.dur = <<MORSE_TIMING.dot>>
    /\ now - last_signal_time > MORSE_TIMING.inter_char_gap
    => JoinSignals(current_char_signals) = <<".">>

====
